---------------------------- MODULE Spec2Model ----------------------------
(***************************************************************************)
(* The eBPF benchmark programs of src/c/programs as a state machine.       *)
(*                                                                         *)
(* Each object file (ringbuf_throughput.c, map_operations.c) is loaded on  *)
(* its own, with its own maps; `loaded` says which one a behaviour is      *)
(* about.  Every CPU runs at most one handler invocation at a time and the *)
(* invocations of different CPUs interleave statement by statement.  The   *)
(* ring buffer consumer is a separate process.                             *)
(*                                                                         *)
(* The ring buffer itself and its consumer, the aggregate record of        *)
(* struct stats and the loader's choice of map capacities are not in the   *)
(* sources; they follow sections 3, 4.1, 4.3 and 6 of the specification.   *)
(*                                                                         *)
(* Payload values that no handler reads back (the timestamps, pid and data *)
(* words of an event) are carried only as "this field has been written";   *)
(* event_type / operation and the value stored in hash_map are carried by  *)
(* value.  Array entries that no pid of Pids can address stay 0 for ever   *)
(* and are not carried.                                                    *)
(***************************************************************************)
EXTENDS Integers, Sequences, FiniteSets, TLC

(* ------------------------------ bounds --------------------------------- *)
NCPU == 2
MaxInvocations == 3
RingCapacity == 48
MaxTime == 1
LoaderMaxEntries == 1
MaxMerges == 4
MaxLatency == 2
MaxPid == 300
ShardCapacity == 2

CPUs == 0 .. (NCPU - 1)
\* the pids (tgid) of the processes that may trigger the hooks
Pids == {1, 2, 257}
Latencies == 0 .. MaxLatency

(* ------------------------- program constants --------------------------- *)
EVENT_TYPE_KPROBE == 1
EVENT_TYPE_TRACEPOINT == 2
CountersMaxEntries == 10
HashMaxEntries == 10240
ArrayMaxEntries == 256
PercpuArrayMaxEntries == 256
PercpuHashMaxEntries == 1024
KEY_MASK_10_bits == 1024 - 1

\* key = (pid_tgid >> 32) & 0xFF
KEY_MASK == 255

\* sizeof(struct event) = sizeof(struct latency_event): u64 + 4 * u32, 2 * u64 + 2 * u32
EventSize == 24
\* the assignments a handler makes to *e before it submits, in source order
EventFields == <<"timestamp", "pid", "cpu_id", "event_type", "data">>
LatencyFields == <<"timestamp_start", "timestamp_end", "operation", "pid">>

NULL == -1
Unwritten == -1

RingbufHandlers == {"kprobe_openat", "tracepoint_openat", "raw_tracepoint_handler"}
MapHandlers == {"hash_map_lookup", "hash_map_update", "array_map_benchmark",
                "percpu_array_benchmark", "percpu_hash_benchmark"}
PerfHandlers == {"kprobe_perf", "tracepoint_perf", "raw_tracepoint_perf"}

key_of(pid) == pid % (KEY_MASK + 1)
Keys == {key_of(p) : p \in Pids}

VARIABLES
    loaded,          \* the object file that is loaded
    pids,            \* the processes that trigger the hooks
    cpu,             \* cpu[c]: the invocation running on CPU c: its position
                     \*   pc, its handler prog, its locals e, key, val, value,
                     \*   and two history fields:
                     \*   wrote = the maps it has written to so far
                     \*   first = it was entered while its key was absent
    ringbuf_events,  \* records between consumer_pos and producer_pos
    consumer_pos,    \* byte offset of the oldest record not yet consumed
    producer_pos,    \* byte offset after the newest reservation
    counters,        \* the `counters` array map of ringbuf_throughput.c
    hash_map,        \* key -> value, defined on the keys present
    hash_map_max_entries,  \* max_entries of hash_map as loaded
    array_map,       \* key -> value
    percpu_array,    \* cpu -> key -> value
    percpu_hash_keys,\* the keys percpu_hash holds an element for
    percpu_hash,     \* cpu -> key -> value (0 where the key is absent)
    ktime,           \* bpf_ktime_get_ns()
    consumed,        \* what the consumer has been handed, in order
    stats,           \* a struct stats record
    seq,             \* history: seq[c] = invocations started on CPU c
    committed,       \* history: the records as they were when submitted
    drop_log,        \* history: one entry per failed reserve: the handler,
                     \*   what its invocation had written, and the committed
                     \*   records that were outstanding
    calls,           \* history: calls[c][h][k] = invocations of h on CPU c
                     \*   with key k
    first_puts,      \* history: first_puts[k] = the values stored by updates
                     \*   of hash_map entered while k was absent
    later_put,       \* history: later_put[k] = an update entered while k was
                     \*   present has stored to k
    lat_log,         \* history: the latencies merged into stats
    perf_events,     \* perf_events[c]: the unread records of CPU c's buffer
    perf_seq,        \* perf_seq[c]: records written to CPU c's buffer so far
    perf_read,       \* history: perf_read[c] = the sequence numbers the
                     \*   consumer has read from CPU c's buffer, in order
    perf_overwritten,\* history: perf_overwritten[c] = the sequence numbers
                     \*   of the records overwritten unread
    perf_calls       \* history: perf_calls[h] = invocations of handler h of
                     \*   perfbuf_throughput.c

ring_vars == <<ringbuf_events, consumer_pos, producer_pos>>
ring_hist == <<committed, drop_log>>
map_vars == <<hash_map, array_map, percpu_array, percpu_hash_keys, percpu_hash>>
map_hist == <<first_puts, later_put>>
agg_vars == <<stats, lat_log>>
perf_vars == <<perf_events, perf_seq>>
perf_hist == <<perf_read, perf_overwritten, perf_calls>>
config == <<loaded, pids, hash_map_max_entries>>

vars == <<config, cpu, ring_vars, counters, map_vars, ktime, consumed, seq,
          ring_hist, calls, map_hist, agg_vars, perf_vars, perf_hist>>

(* ----------------------------- helpers --------------------------------- *)
RECURSIVE SumOver(_, _)
SumOver(f, S) ==
    IF S = {} THEN 0
    ELSE LET x == CHOOSE y \in S : TRUE
         IN  f[x] + SumOver(f, S \ {x})

Invocations == SumOver(seq, CPUs)

Range(q) == {q[i] : i \in 1 .. Len(q)}

IdleCpu == [pc |-> "idle", prog |-> "none", e |-> NULL, key |-> 0, val |-> "none",
            value |-> 0, wrote |-> {}, first |-> FALSE]

\* the fields of the record type the loaded program puts in the ring
FieldsOf(obj) == IF obj = "map_operations" THEN LatencyFields ELSE EventFields

(* ------------------- ring buffer (kernel side) ------------------------- *)
Outstanding == producer_pos - consumer_pos

\* index in ringbuf_events of the record reserved at byte offset `off`
SlotIndex(off) == ((off - consumer_pos) \div EventSize) + 1

\* the committed records the consumer has not taken yet
Visible == {r \in Range(ringbuf_events) : ~ r.busy}

ringbuf_has_room_unchecked(size) == TRUE

\* bpf_ringbuf_reserve: is there room for `size` more outstanding bytes
ringbuf_has_room(size) == Outstanding + size <= RingCapacity

\* the slot a successful reservation hands out: busy, nothing written yet
\* (owner, seq and prog are history: who reserved it, in which invocation of
\* which handler)
ReservedSlot(c) ==
    [owner |-> c, seq |-> seq[c], prog |-> cpu[c].prog, busy |-> TRUE,
     written |-> 0, type |-> Unwritten]

\* bpf_ringbuf_reserve(&ringbuf_events, size, 0) on CPU c: the offset of the
\* slot, or NULL
bpf_ringbuf_reserve(c, size) ==
    IF ringbuf_has_room(size)
    THEN /\ ringbuf_events' = Append(ringbuf_events, ReservedSlot(c))
         /\ producer_pos' = producer_pos + size
         /\ UNCHANGED drop_log
    ELSE /\ drop_log' = Append(drop_log, [prog |-> cpu[c].prog,
                                           wrote |-> cpu[c].wrote,
                                           visible |-> Visible])
         /\ UNCHANGED <<ringbuf_events, producer_pos>>

\* what bpf_ringbuf_reserve returns
reserve_result(size) == IF ringbuf_has_room(size) THEN producer_pos ELSE NULL

\* an assignment e->field = v through the pointer returned by reserve
slot_write(off, n, type) ==
    LET i == SlotIndex(off)
    IN  ringbuf_events' =
            [ringbuf_events EXCEPT ![i].written = n,
                                   ![i].type = IF type = Unwritten THEN @ ELSE type]

\* bpf_ringbuf_submit(e, 0): the record becomes visible to the consumer
bpf_ringbuf_submit(off) ==
    LET i == SlotIndex(off)
    IN  /\ ringbuf_events' = [ringbuf_events EXCEPT ![i].busy = FALSE]
        /\ committed' = committed \cup {[ringbuf_events[i] EXCEPT !.busy = FALSE]}

(* ------------------------- shared by the handlers ---------------------- *)
\* `if (!e) return 1;`
reserve_failed(ptr) == ptr = NULL

\* bpf_map_lookup_elem on a BPF_MAP_TYPE_ARRAY: a hit iff the index is in range
array_lookup_hits(k, max_entries) == k >= 0 /\ k < max_entries

sync_fetch_and_add_store(old, d) == d

\* __sync_fetch_and_add(ptr, d): the new value of *ptr
sync_fetch_and_add(old, d) == old + d

\* the handler returns: the CPU is idle again and its locals are dead
Return(c) == cpu' = [cpu EXCEPT ![c] = IdleCpu]

(* ------------------------ ringbuf_throughput.c ------------------------- *)
event_type_of_all_kprobe(h) == EVENT_TYPE_KPROBE

event_type_of(h) ==
    CASE h = "kprobe_openat"          -> EVENT_TYPE_KPROBE
      [] h = "tracepoint_openat"      -> EVENT_TYPE_TRACEPOINT
      [] h = "raw_tracepoint_handler" -> EVENT_TYPE_TRACEPOINT

counter_key_of_all_zero(h) == 1 - 1

counter_key_of(h) ==
    CASE h = "kprobe_openat"          -> 0
      [] h = "tracepoint_openat"      -> 1
      [] h = "raw_tracepoint_handler" -> 2

fields_before_submit_early(obj) == Len(FieldsOf(obj)) - 1

\* how many of the record's fields are assigned before bpf_ringbuf_submit
fields_before_submit(obj) == Len(FieldsOf(obj))

rb_entry_counts_first(c, h) ==
    /\ loaded = "ringbuf_throughput"
    /\ cpu[c].pc = "idle"
    /\ Invocations < MaxInvocations
    /\ cpu' = [cpu EXCEPT ![c].pc = "reserve", ![c].prog = h]
    /\ seq' = [seq EXCEPT ![c] = @ + 1]
    /\ counters' = [counters EXCEPT ![counter_key_of(h)] = sync_fetch_and_add(@, 1)]
    /\ UNCHANGED <<config, ring_vars, map_vars, ktime, consumed,
                   ring_hist, calls, map_hist, agg_vars, perf_vars, perf_hist>>

\* the dispatcher fires handler h on an idle CPU
rb_entry(c, h) ==
    /\ loaded = "ringbuf_throughput"
    /\ cpu[c].pc = "idle"
    /\ Invocations < MaxInvocations
    /\ cpu' = [cpu EXCEPT ![c].pc = "reserve", ![c].prog = h]
    /\ seq' = [seq EXCEPT ![c] = @ + 1]
    /\ UNCHANGED <<config, ring_vars, counters, map_vars, ktime, consumed,
                   ring_hist, calls, map_hist, agg_vars, perf_vars, perf_hist>>

rb_reserve_waits(c, h) ==
    /\ loaded = "ringbuf_throughput"
    /\ cpu[c].prog = h
    /\ cpu[c].pc = "reserve"
    /\ ringbuf_has_room(EventSize)
    /\ bpf_ringbuf_reserve(c, EventSize)
    /\ cpu' = [cpu EXCEPT ![c].e = reserve_result(EventSize),
                          ![c].pc = "fill",
                          ![c].wrote = @ \cup {"ringbuf_events"}]
    /\ UNCHANGED <<config, consumer_pos, counters, map_vars, ktime, consumed,
                   seq, committed, calls, map_hist, agg_vars, perf_vars, perf_hist>>

\* e = bpf_ringbuf_reserve(&ringbuf_events, sizeof(*e), 0);
\* if (!e) return 1;
rb_reserve(c, h) ==
    /\ loaded = "ringbuf_throughput"
    /\ cpu[c].prog = h
    /\ cpu[c].pc = "reserve"
    /\ bpf_ringbuf_reserve(c, EventSize)
    /\ IF reserve_failed(reserve_result(EventSize))
       THEN Return(c)
       ELSE cpu' = [cpu EXCEPT ![c].e = reserve_result(EventSize),
                               ![c].pc = "fill",
                               ![c].wrote = @ \cup {"ringbuf_events"}]
    /\ UNCHANGED <<config, consumer_pos, counters, map_vars, ktime, consumed,
                   seq, committed, calls, map_hist, agg_vars, perf_vars, perf_hist>>

\* e->timestamp = ...; e->pid = ...; e->cpu_id = ...; e->event_type = ...;
\* e->data = ...;  one assignment per step, in the order of the source
rb_fill(c, h) ==
    /\ loaded = "ringbuf_throughput"
    /\ cpu[c].prog = h
    /\ cpu[c].pc = "fill"
    /\ LET n == ringbuf_events[SlotIndex(cpu[c].e)].written + 1
       IN  /\ slot_write(cpu[c].e, n,
                         IF EventFields[n] = "event_type"
                         THEN event_type_of(h) ELSE Unwritten)
           /\ cpu' = [cpu EXCEPT ![c].pc = IF n >= fields_before_submit(loaded)
                                           THEN "submit" ELSE "fill"]
    /\ UNCHANGED <<config, consumer_pos, producer_pos, counters, map_vars, ktime,
                   consumed, seq, ring_hist, calls, map_hist, agg_vars, perf_vars, perf_hist>>

rb_submit_forgotten(c, h) ==
    /\ loaded = "ringbuf_throughput"
    /\ cpu[c].prog = h
    /\ cpu[c].pc = "submit"
    /\ IF h = "raw_tracepoint_handler"
       THEN UNCHANGED <<ringbuf_events, committed>>
       ELSE bpf_ringbuf_submit(cpu[c].e)
    /\ cpu' = [cpu EXCEPT ![c].pc = "count"]
    /\ UNCHANGED <<config, consumer_pos, producer_pos, counters, map_vars, ktime,
                   consumed, seq, drop_log, calls, map_hist, agg_vars, perf_vars, perf_hist>>

\* bpf_ringbuf_submit(e, 0);
rb_submit(c, h) ==
    /\ loaded = "ringbuf_throughput"
    /\ cpu[c].prog = h
    /\ cpu[c].pc = "submit"
    /\ bpf_ringbuf_submit(cpu[c].e)
    /\ cpu' = [cpu EXCEPT ![c].pc = "count"]
    /\ UNCHANGED <<config, consumer_pos, producer_pos, counters, map_vars, ktime,
                   consumed, seq, drop_log, calls, map_hist, agg_vars, perf_vars, perf_hist>>

\* counter = bpf_map_lookup_elem(&counters, &k);
\* if (counter) __sync_fetch_and_add(counter, 1);
\* return 0;
rb_count(c, h) ==
    /\ loaded = "ringbuf_throughput"
    /\ cpu[c].prog = h
    /\ cpu[c].pc = "count"
    /\ LET k == counter_key_of(h)
       IN  IF array_lookup_hits(k, CountersMaxEntries)
           THEN counters' = [counters EXCEPT ![k] = sync_fetch_and_add(@, 1)]
           ELSE UNCHANGED counters
    /\ Return(c)
    /\ UNCHANGED <<config, ring_vars, map_vars, ktime, consumed, seq, ring_hist,
                   calls, map_hist, agg_vars, perf_vars, perf_hist>>

ringbuf_handler(c, h) ==
    \/ rb_entry(c, h)
    \/ rb_reserve(c, h)
    \/ rb_fill(c, h)
    \/ rb_submit(c, h)
    \/ rb_count(c, h)

kprobe_openat(c) == ringbuf_handler(c, "kprobe_openat")
tracepoint_openat(c) == ringbuf_handler(c, "tracepoint_openat")
raw_tracepoint_handler(c) == ringbuf_handler(c, "raw_tracepoint_handler")

(* ---------------------------- the consumer ----------------------------- *)
poll_keeps_space ==
    /\ loaded \in {"ringbuf_throughput", "map_operations"}
    /\ Len(ringbuf_events) > 0
    /\ ~ Head(ringbuf_events).busy
    /\ consumed' = Append(consumed, Head(ringbuf_events))
    /\ ringbuf_events' = Tail(ringbuf_events)
    /\ UNCHANGED <<config, cpu, consumer_pos, producer_pos, counters, map_vars,
                   ktime, seq, ring_hist, calls, map_hist, agg_vars, perf_vars, perf_hist>>

\* one record of a poll: the oldest outstanding record, once it is committed,
\* is handed to the consumer and its bytes are free again
poll ==
    /\ loaded \in {"ringbuf_throughput", "map_operations"}
    /\ Len(ringbuf_events) > 0
    /\ ~ Head(ringbuf_events).busy
    /\ consumed' = Append(consumed, Head(ringbuf_events))
    /\ ringbuf_events' = Tail(ringbuf_events)
    /\ consumer_pos' = consumer_pos + EventSize
    /\ UNCHANGED <<config, cpu, producer_pos, counters, map_vars, ktime, seq,
                   ring_hist, calls, map_hist, agg_vars, perf_vars, perf_hist>>

(* --------------------------- map_operations.c -------------------------- *)
operation_of(h) ==
    CASE h = "hash_map_lookup"        -> 0
      [] h = "hash_map_update"        -> 1
      [] h = "array_map_benchmark"    -> 2
      [] h = "percpu_array_benchmark" -> 3
      [] h = "percpu_hash_benchmark"  -> 4

\* bpf_map_update_elem(.., BPF_ANY) on a hash map of capacity `max`: refused
\* (-E2BIG) when the key is new and the map is full
hash_update_rejected(present, max, k) ==
    k \notin present /\ Cardinality(present) >= max

\* the map after bpf_map_update_elem(&m, &k, &v, BPF_ANY)
hash_update_elem(m, max, k, v) ==
    IF hash_update_rejected(DOMAIN m, max, k)
    THEN m
    ELSE [x \in DOMAIN m \cup {k} |-> IF x = k THEN v ELSE m[x]]

percpu_hash_update_elem_allcpus(c, k, v) ==
    IF hash_update_rejected(percpu_hash_keys, PercpuHashMaxEntries, k)
    THEN UNCHANGED <<percpu_hash_keys, percpu_hash>>
    ELSE /\ percpu_hash_keys' = percpu_hash_keys \cup {k}
         /\ percpu_hash' =
               [d \in CPUs |->
                   [percpu_hash[d] EXCEPT
                       ![k] = IF d = c \/ k \notin percpu_hash_keys THEN v ELSE @]]

\* bpf_map_update_elem(.., BPF_ANY) on the per-CPU hash from CPU c: a new
\* element has v in c's slot and 0 in the others; an existing element gets v
\* in c's slot only
percpu_hash_update_elem(c, k, v) ==
    IF hash_update_rejected(percpu_hash_keys, PercpuHashMaxEntries, k)
    THEN UNCHANGED <<percpu_hash_keys, percpu_hash>>
    ELSE /\ percpu_hash_keys' = percpu_hash_keys \cup {k}
         /\ percpu_hash' =
               [d \in CPUs |->
                   [percpu_hash[d] EXCEPT
                       ![k] = IF d = c THEN v
                              ELSE IF k \in percpu_hash_keys THEN @ ELSE 0]]

init_val_zero == 1 - 1

\* __u64 init_val = 1;
init_val == 1

lookup_missed_always(v) == TRUE

\* `if (!val)` after bpf_map_lookup_elem(&percpu_hash, &key)
lookup_missed(v) == v = "miss"

\* the dispatcher fires handler h on an idle CPU, in a process with this pid:
\* key = (pid_tgid >> 32) & 0xFF;  value = bpf_ktime_get_ns();  start = ...
mo_entry(c, h, pid) ==
    /\ loaded = "map_operations"
    /\ cpu[c].pc = "idle"
    /\ Invocations < MaxInvocations
    /\ cpu' = [cpu EXCEPT ![c] =
                 [IdleCpu EXCEPT
                     !.pc = "op",
                     !.prog = h,
                     !.key = key_of(pid),
                     !.value = IF h = "hash_map_update" THEN ktime ELSE 0,
                     !.first = (h = "hash_map_update"
                                /\ key_of(pid) \notin DOMAIN hash_map)]]
    /\ seq' = [seq EXCEPT ![c] = @ + 1]
    /\ calls' = [calls EXCEPT ![c][h][key_of(pid)] = @ + 1]
    /\ UNCHANGED <<config, ring_vars, counters, map_vars, ktime, consumed,
                   ring_hist, map_hist, agg_vars, perf_vars, perf_hist>>

hm_lookup_or_init(c) ==
    /\ loaded = "map_operations"
    /\ cpu[c].prog = "hash_map_lookup"
    /\ cpu[c].pc = "op"
    /\ cpu' = [cpu EXCEPT ![c].val = IF cpu[c].key \in DOMAIN hash_map
                                     THEN "hit" ELSE "miss",
                          ![c].pc = "reserve"]
    /\ hash_map' = IF cpu[c].key \in DOMAIN hash_map THEN hash_map
                   ELSE hash_update_elem(hash_map, hash_map_max_entries,
                                         cpu[c].key, 0)
    /\ UNCHANGED <<config, ring_vars, counters, array_map, percpu_array,
                   percpu_hash_keys, percpu_hash, ktime, consumed, seq,
                   ring_hist, calls, map_hist, agg_vars, perf_vars, perf_hist>>

\* __u64 *val = bpf_map_lookup_elem(&hash_map, &key);  end = ...
hm_lookup(c) ==
    /\ loaded = "map_operations"
    /\ cpu[c].prog = "hash_map_lookup"
    /\ cpu[c].pc = "op"
    /\ cpu' = [cpu EXCEPT ![c].val = IF cpu[c].key \in DOMAIN hash_map
                                     THEN "hit" ELSE "miss",
                          ![c].pc = "reserve"]
    /\ UNCHANGED <<config, ring_vars, counters, map_vars, ktime, consumed, seq,
                   ring_hist, calls, map_hist, agg_vars, perf_vars, perf_hist>>

\* bpf_map_update_elem(&hash_map, &key, &value, BPF_ANY);  end = ...
\* (the helper's return value is not looked at)
hm_update(c) ==
    /\ loaded = "map_operations"
    /\ cpu[c].prog = "hash_map_update"
    /\ cpu[c].pc = "op"
    /\ LET k == cpu[c].key
           refused == hash_update_rejected(DOMAIN hash_map, hash_map_max_entries, k)
       IN  /\ hash_map' = hash_update_elem(hash_map, hash_map_max_entries, k,
                                           cpu[c].value)
           /\ cpu' = [cpu EXCEPT ![c].pc = "reserve",
                                 ![c].wrote = IF refused THEN @
                                              ELSE @ \cup {"hash_map"}]
           /\ first_puts' =
                 IF ~ refused /\ cpu[c].first
                 THEN [first_puts EXCEPT ![k] = @ \cup {cpu[c].value}]
                 ELSE first_puts
           /\ later_put' =
                 IF ~ refused /\ ~ cpu[c].first
                 THEN [later_put EXCEPT ![k] = TRUE]
                 ELSE later_put
    /\ UNCHANGED <<config, ring_vars, counters, array_map, percpu_array,
                   percpu_hash_keys, percpu_hash, ktime, consumed, seq,
                   ring_hist, calls, agg_vars, perf_vars, perf_hist>>

\* __u64 *val = bpf_map_lookup_elem(&array_map, &key);
\* if (val) __sync_fetch_and_add(val, 1);  end = ...
am_update(c) ==
    /\ loaded = "map_operations"
    /\ cpu[c].prog = "array_map_benchmark"
    /\ cpu[c].pc = "op"
    /\ IF array_lookup_hits(cpu[c].key, ArrayMaxEntries)
       THEN /\ array_map' = [array_map EXCEPT
                                ![cpu[c].key] = sync_fetch_and_add(@, 1)]
            /\ cpu' = [cpu EXCEPT ![c].pc = "reserve",
                                  ![c].wrote = @ \cup {"array_map"}]
       ELSE /\ cpu' = [cpu EXCEPT ![c].pc = "reserve"]
            /\ UNCHANGED array_map
    /\ UNCHANGED <<config, ring_vars, counters, hash_map, percpu_array,
                   percpu_hash_keys, percpu_hash, ktime, consumed, seq,
                   ring_hist, calls, map_hist, agg_vars, perf_vars, perf_hist>>

\* __u64 *val = bpf_map_lookup_elem(&percpu_array, &key);   (this CPU's slot)
\* if (val) __sync_fetch_and_add(val, 1);  end = ...
pa_update(c) ==
    /\ loaded = "map_operations"
    /\ cpu[c].prog = "percpu_array_benchmark"
    /\ cpu[c].pc = "op"
    /\ IF array_lookup_hits(cpu[c].key, PercpuArrayMaxEntries)
       THEN /\ percpu_array' = [percpu_array EXCEPT
                                   ![c][cpu[c].key] = sync_fetch_and_add(@, 1)]
            /\ cpu' = [cpu EXCEPT ![c].pc = "reserve",
                                  ![c].wrote = @ \cup {"percpu_array"}]
       ELSE /\ cpu' = [cpu EXCEPT ![c].pc = "reserve"]
            /\ UNCHANGED percpu_array
    /\ UNCHANGED <<config, ring_vars, counters, hash_map, array_map,
                   percpu_hash_keys, percpu_hash, ktime, consumed, seq,
                   ring_hist, calls, map_hist, agg_vars, perf_vars, perf_hist>>

\* __u64 *val = bpf_map_lookup_elem(&percpu_hash, &key);
ph_lookup(c) ==
    /\ loaded = "map_operations"
    /\ cpu[c].prog = "percpu_hash_benchmark"
    /\ cpu[c].pc = "op"
    /\ cpu' = [cpu EXCEPT ![c].val = IF cpu[c].key \in percpu_hash_keys
                                     THEN "hit" ELSE "miss",
                          ![c].pc = "op2"]
    /\ UNCHANGED <<config, ring_vars, counters, map_vars, ktime, consumed, seq,
                   ring_hist, calls, map_hist, agg_vars, perf_vars, perf_hist>>

\* if (!val) { init_val = 1; bpf_map_update_elem(&percpu_hash, &key, &init_val,
\* BPF_ANY); } else { __sync_fetch_and_add(val, 1); }  end = ...
ph_update(c) ==
    /\ loaded = "map_operations"
    /\ cpu[c].prog = "percpu_hash_benchmark"
    /\ cpu[c].pc = "op2"
    /\ IF lookup_missed(cpu[c].val)
       THEN /\ percpu_hash_update_elem(c, cpu[c].key, init_val)
            /\ cpu' = [cpu EXCEPT
                          ![c].pc = "reserve",
                          ![c].wrote =
                              IF hash_update_rejected(percpu_hash_keys,
                                     PercpuHashMaxEntries, cpu[c].key)
                              THEN @ ELSE @ \cup {"percpu_hash"}]
       ELSE /\ percpu_hash' = [percpu_hash EXCEPT
                                  ![c][cpu[c].key] = sync_fetch_and_add(@, 1)]
            /\ cpu' = [cpu EXCEPT ![c].pc = "reserve",
                                  ![c].wrote = @ \cup {"percpu_hash"}]
            /\ UNCHANGED percpu_hash_keys
    /\ UNCHANGED <<config, ring_vars, counters, hash_map, array_map,
                   percpu_array, ktime, consumed, seq, ring_hist, calls,
                   map_hist, agg_vars, perf_vars, perf_hist>>

\* struct latency_event *e = bpf_ringbuf_reserve(&ringbuf_events, sizeof(*e), 0);
\* if (!e) return 1;
mo_reserve(c, h) ==
    /\ loaded = "map_operations"
    /\ cpu[c].prog = h
    /\ cpu[c].pc = "reserve"
    /\ bpf_ringbuf_reserve(c, EventSize)
    /\ IF reserve_failed(reserve_result(EventSize))
       THEN Return(c)
       ELSE cpu' = [cpu EXCEPT ![c].e = reserve_result(EventSize),
                               ![c].pc = "fill",
                               ![c].wrote = @ \cup {"ringbuf_events"}]
    /\ UNCHANGED <<config, consumer_pos, counters, map_vars, ktime, consumed,
                   seq, committed, calls, map_hist, agg_vars, perf_vars, perf_hist>>

\* e->timestamp_start = start; e->timestamp_end = end; e->operation = ..;
\* e->pid = ..;  one assignment per step, in the order of the source
mo_fill(c, h) ==
    /\ loaded = "map_operations"
    /\ cpu[c].prog = h
    /\ cpu[c].pc = "fill"
    /\ LET n == ringbuf_events[SlotIndex(cpu[c].e)].written + 1
       IN  /\ slot_write(cpu[c].e, n,
                         IF LatencyFields[n] = "operation"
                         THEN operation_of(h) ELSE Unwritten)
           /\ cpu' = [cpu EXCEPT ![c].pc = IF n >= fields_before_submit(loaded)
                                           THEN "submit" ELSE "fill"]
    /\ UNCHANGED <<config, consumer_pos, producer_pos, counters, map_vars, ktime,
                   consumed, seq, ring_hist, calls, map_hist, agg_vars, perf_vars, perf_hist>>

mo_submit_forgotten(c, h) ==
    /\ loaded = "map_operations"
    /\ cpu[c].prog = h
    /\ cpu[c].pc = "submit"
    /\ Return(c)
    /\ UNCHANGED <<config, ring_vars, counters, map_vars, ktime, consumed, seq,
                   ring_hist, calls, map_hist, agg_vars, perf_vars, perf_hist>>

\* bpf_ringbuf_submit(e, 0);  return 0;
mo_submit(c, h) ==
    /\ loaded = "map_operations"
    /\ cpu[c].prog = h
    /\ cpu[c].pc = "submit"
    /\ bpf_ringbuf_submit(cpu[c].e)
    /\ Return(c)
    /\ UNCHANGED <<config, consumer_pos, producer_pos, counters, map_vars, ktime,
                   consumed, seq, drop_log, calls, map_hist, agg_vars, perf_vars, perf_hist>>

\* what every handler of map_operations.c does around its map operation
mo_frame(c, h) ==
    \/ \E pid \in pids : mo_entry(c, h, pid)
    \/ mo_reserve(c, h)
    \/ mo_fill(c, h)
    \/ mo_submit(c, h)

hash_map_lookup(c) == mo_frame(c, "hash_map_lookup") \/ hm_lookup(c)
hash_map_update(c) == mo_frame(c, "hash_map_update") \/ hm_update(c)
array_map_benchmark(c) == mo_frame(c, "array_map_benchmark") \/ am_update(c)
percpu_array_benchmark(c) == mo_frame(c, "percpu_array_benchmark") \/ pa_update(c)
percpu_hash_benchmark(c) ==
    mo_frame(c, "percpu_hash_benchmark") \/ ph_lookup(c) \/ ph_update(c)

\* time passes: bpf_ktime_get_ns() is monotonic
Tick ==
    /\ loaded = "map_operations"
    /\ ktime < MaxTime
    /\ ktime' = ktime + 1
    /\ UNCHANGED <<config, cpu, ring_vars, counters, map_vars, consumed, seq,
                   ring_hist, calls, map_hist, agg_vars, perf_vars, perf_hist>>

(* ------------------------ perfbuf_throughput.c ------------------------- *)
perf_event_type_of(h) ==
    CASE h = "kprobe_perf"         -> EVENT_TYPE_KPROBE
      [] h = "tracepoint_perf"     -> EVENT_TYPE_TRACEPOINT
      [] h = "raw_tracepoint_perf" -> EVENT_TYPE_TRACEPOINT

perf_counter_key_of(h) ==
    CASE h = "kprobe_perf"         -> 0
      [] h = "tracepoint_perf"     -> 1
      [] h = "raw_tracepoint_perf" -> 2

perf_writes_always(h) == TRUE

\* does the handler call bpf_perf_event_output
perf_writes(h) == h \in {"kprobe_perf", "tracepoint_perf"}

\* the record a write puts in CPU c's buffer; seq is the buffer's sequence
\* number, prog is history
PerfRecord(c) ==
    [seq |-> perf_seq[c] + 1, prog |-> cpu[c].prog, type |-> cpu[c].value]

perf_buffer_write_drops_newest(c) ==
    IF Len(perf_events[c]) >= ShardCapacity
    THEN /\ perf_seq' = [perf_seq EXCEPT ![c] = @ + 1]
         /\ UNCHANGED <<perf_events, perf_overwritten>>
    ELSE /\ perf_events' = [perf_events EXCEPT ![c] = Append(@, PerfRecord(c))]
         /\ perf_seq' = [perf_seq EXCEPT ![c] = @ + 1]
         /\ UNCHANGED perf_overwritten

\* write(record) on CPU c's buffer: unconditional; on a full buffer the
\* oldest unread record is overwritten
perf_buffer_write(c) ==
    LET full == Len(perf_events[c]) >= ShardCapacity
    IN  /\ perf_events' =
              [perf_events EXCEPT
                  ![c] = Append(IF full THEN Tail(@) ELSE @, PerfRecord(c))]
        /\ perf_seq' = [perf_seq EXCEPT ![c] = @ + 1]
        /\ perf_overwritten' =
              IF full
              THEN [perf_overwritten EXCEPT ![c] = @ \cup {Head(perf_events[c]).seq}]
              ELSE perf_overwritten

\* the dispatcher fires handler h on an idle CPU:
\* struct benchmark_perf_event event = {};
pf_entry(c, h) ==
    /\ loaded = "perfbuf_throughput"
    /\ cpu[c].pc = "idle"
    /\ Invocations < MaxInvocations
    /\ cpu' = [cpu EXCEPT ![c].pc = "fill", ![c].prog = h]
    /\ seq' = [seq EXCEPT ![c] = @ + 1]
    /\ perf_calls' = [perf_calls EXCEPT ![h] = @ + 1]
    /\ UNCHANGED <<config, ring_vars, counters, map_vars, ktime, consumed,
                   ring_hist, calls, map_hist, agg_vars, perf_vars, perf_read,
                   perf_overwritten>>

\* event.timestamp = ...; event.pid = ...; event.cpu_id = ...;
\* event.event_type = ...; event.data = ...;   (event is on the stack)
pf_fill(c, h) ==
    /\ loaded = "perfbuf_throughput"
    /\ cpu[c].prog = h
    /\ cpu[c].pc = "fill"
    /\ cpu' = [cpu EXCEPT ![c].value = perf_event_type_of(h),
                          ![c].pc = IF perf_writes(h) THEN "output" ELSE "count"]
    /\ UNCHANGED <<config, ring_vars, counters, map_vars, ktime, consumed, seq,
                   ring_hist, calls, map_hist, agg_vars, perf_vars, perf_hist>>

\* bpf_perf_event_output(ctx, &perf_events, BPF_F_CURRENT_CPU, &event,
\* sizeof(event));   (the helper's return value is not looked at)
pf_output(c, h) ==
    /\ loaded = "perfbuf_throughput"
    /\ cpu[c].prog = h
    /\ cpu[c].pc = "output"
    /\ perf_buffer_write(c)
    /\ cpu' = [cpu EXCEPT ![c].pc = "count"]
    /\ UNCHANGED <<config, ring_vars, counters, map_vars, ktime, consumed, seq,
                   ring_hist, calls, map_hist, agg_vars, perf_read, perf_calls>>

\* counter = bpf_map_lookup_elem(&counters, &k);
\* if (counter) __sync_fetch_and_add(counter, 1);
\* return 0;
pf_count(c, h) ==
    /\ loaded = "perfbuf_throughput"
    /\ cpu[c].prog = h
    /\ cpu[c].pc = "count"
    /\ LET k == perf_counter_key_of(h)
       IN  IF array_lookup_hits(k, CountersMaxEntries)
           THEN counters' = [counters EXCEPT ![k] = sync_fetch_and_add(@, 1)]
           ELSE UNCHANGED counters
    /\ Return(c)
    /\ UNCHANGED <<config, ring_vars, map_vars, ktime, consumed, seq, ring_hist,
                   calls, map_hist, agg_vars, perf_vars, perf_hist>>

perf_handler(c, h) ==
    \/ pf_entry(c, h)
    \/ pf_fill(c, h)
    \/ pf_output(c, h)
    \/ pf_count(c, h)

kprobe_perf(c) == perf_handler(c, "kprobe_perf")
tracepoint_perf(c) == perf_handler(c, "tracepoint_perf")
raw_tracepoint_perf(c) == perf_handler(c, "raw_tracepoint_perf")

\* poll(shard): the consumer reads the oldest unread record of CPU c's buffer
perf_poll(c) ==
    /\ loaded = "perfbuf_throughput"
    /\ Len(perf_events[c]) > 0
    /\ perf_read' = [perf_read EXCEPT ![c] = Append(@, Head(perf_events[c]).seq)]
    /\ perf_events' = [perf_events EXCEPT ![c] = Tail(@)]
    /\ UNCHANGED <<config, cpu, ring_vars, counters, map_vars, ktime, consumed,
                   seq, ring_hist, calls, map_hist, agg_vars, perf_seq,
                   perf_overwritten, perf_calls>>

(* ------------------------- struct stats -------------------------------- *)
\* min_latency / max_latency of a record with count = 0 are undefined
Sentinel == -1

MinLatency(a, b) == IF a = Sentinel THEN b ELSE IF a < b THEN a ELSE b
MaxLatency2(a, b) == IF a = Sentinel THEN b ELSE IF a > b THEN a ELSE b

fresh_stats_zeroed ==
    [count |-> 0, sum_latency |-> 0, min_latency |-> 0, max_latency |-> 0]

\* a fresh record
fresh_stats ==
    [count |-> 0, sum_latency |-> 0, min_latency |-> Sentinel,
     max_latency |-> Sentinel]

\* count += 1; sum += d; min = min(min, d); max = max(max, d)
stats_merge(r, d) ==
    [count       |-> r.count + 1,
     sum_latency |-> r.sum_latency + d,
     min_latency |-> MinLatency(r.min_latency, d),
     max_latency |-> MaxLatency2(r.max_latency, d)]

merge(d) ==
    /\ loaded = "stats"
    /\ Len(lat_log) < MaxMerges
    /\ stats' = stats_merge(stats, d)
    /\ lat_log' = Append(lat_log, d)
    /\ UNCHANGED <<config, cpu, ring_vars, counters, map_vars, ktime, consumed,
                   seq, ring_hist, calls, map_hist, perf_vars, perf_hist>>

(* ------------------------------ the system ----------------------------- *)
InitWith(objects, capacities, processes) ==
    /\ loaded \in objects
    /\ pids = processes
    /\ hash_map_max_entries \in capacities
    /\ cpu = [c \in CPUs |-> IdleCpu]
    /\ ringbuf_events = <<>>
    /\ consumer_pos = 0
    /\ producer_pos = 0
    /\ counters = [k \in 0 .. (CountersMaxEntries - 1) |-> 0]
    /\ hash_map = <<>>
    /\ array_map = [k \in Keys |-> 0]
    /\ percpu_array = [c \in CPUs |-> [k \in Keys |-> 0]]
    /\ percpu_hash_keys = {}
    /\ percpu_hash = [c \in CPUs |-> [k \in Keys |-> 0]]
    /\ ktime = 0
    /\ consumed = <<>>
    /\ stats = fresh_stats
    /\ seq = [c \in CPUs |-> 0]
    /\ committed = {}
    /\ drop_log = <<>>
    /\ calls = [c \in CPUs |-> [h \in MapHandlers |-> [k \in Keys |-> 0]]]
    /\ first_puts = [k \in Keys |-> {}]
    /\ later_put = [k \in Keys |-> FALSE]
    /\ lat_log = <<>>
    /\ perf_events = [c \in CPUs |-> <<>>]
    /\ perf_seq = [c \in CPUs |-> 0]
    /\ perf_read = [c \in CPUs |-> <<>>]
    /\ perf_overwritten = [c \in CPUs |-> {}]
    /\ perf_calls = [h \in PerfHandlers |-> 0]

RingbufNext ==
    \/ \E c \in CPUs : kprobe_openat(c)
    \/ \E c \in CPUs : tracepoint_openat(c)
    \/ \E c \in CPUs : raw_tracepoint_handler(c)
    \/ poll

\* the two programs of map_operations.c that use hash_map
HashMapNext ==
    \/ \E c \in CPUs : hash_map_lookup(c)
    \/ \E c \in CPUs : hash_map_update(c)
    \/ Tick
    \/ poll

MapNext ==
    \/ \E c \in CPUs : hash_map_lookup(c)
    \/ \E c \in CPUs : hash_map_update(c)
    \/ \E c \in CPUs : array_map_benchmark(c)
    \/ \E c \in CPUs : percpu_array_benchmark(c)
    \/ \E c \in CPUs : percpu_hash_benchmark(c)
    \/ Tick
    \/ poll

StatsNext == \E d \in Latencies : merge(d)

PerfNext ==
    \/ \E c \in CPUs : kprobe_perf(c)
    \/ \E c \in CPUs : tracepoint_perf(c)
    \/ \E c \in CPUs : raw_tracepoint_perf(c)
    \/ \E c \in CPUs : perf_poll(c)

\* either object file, loaded with the capacities of the source; the hooks are
\* triggered by two processes whose pids differ only above the low 8 bits
Init == InitWith({"ringbuf_throughput", "map_operations"}, {HashMaxEntries},
                 {1, 257})
Next == RingbufNext \/ MapNext
Spec == Init /\ [][Next]_vars

\* map_operations.c loaded with hash_map resized by the loader and only the
\* programs that use hash_map attached; the hooks are triggered by two
\* processes with different keys
SmallMapInit == InitWith({"map_operations"}, {LoaderMaxEntries}, {1, 2})
SmallMapSpec == SmallMapInit /\ [][HashMapNext]_vars

\* perfbuf_throughput.c
PerfInit == InitWith({"perfbuf_throughput"}, {HashMaxEntries}, {1, 257})
PerfSpec == PerfInit /\ [][PerfNext]_vars

\* the aggregate record on its own
StatsInit == InitWith({"stats"}, {HashMaxEntries}, {})
StatsSpec == StatsInit /\ [][StatsNext]_vars

\* ringbuf_throughput.c where a started handler invocation runs to its return
\* (BPF programs cannot block) and the consumer keeps polling; the dispatcher
\* is free to stop firing
handler_step(c) ==
    \E h \in RingbufHandlers :
        rb_reserve(c, h) \/ rb_fill(c, h) \/ rb_submit(c, h) \/ rb_count(c, h)

Fairness ==
    /\ \A c \in CPUs : WF_vars(handler_step(c))
    /\ WF_vars(poll)

LiveInit == InitWith({"ringbuf_throughput"}, {HashMaxEntries}, {1, 257})
LiveSpec == LiveInit /\ [][RingbufNext]_vars /\ Fairness

(* ------------------------------- claims -------------------------------- *)
\* a record is named by its producer (CPU) and that producer's invocation
RecordIds == CPUs \X (1 .. (MaxInvocations + 1))

IsCommitted(c, n) == \E r \in committed : r.owner = c /\ r.seq = n
IsYielded(c, n) == \E i \in 1 .. Len(consumed) :
                        consumed[i].owner = c /\ consumed[i].seq = n

YieldedOnce ==
    \A i, j \in 1 .. Len(consumed) :
        (consumed[i].owner = consumed[j].owner /\ consumed[i].seq = consumed[j].seq)
            => i = j

PerProducerFifo ==
    \A i, j \in 1 .. Len(consumed) :
        (i < j /\ consumed[i].owner = consumed[j].owner)
            => consumed[i].seq < consumed[j].seq

\* C1: every committed record is eventually handed to the consumer, no record
\* is handed over twice, and the records of one producer (CPU) are handed over
\* in the order that producer reserved them.
C1_CommittedEventuallyYieldedOnceInOrder ==
    /\ [](YieldedOnce /\ PerProducerFifo)
    /\ \A id \in RecordIds :
          IsCommitted(id[1], id[2]) ~> IsYielded(id[1], id[2])

\* two records of one producer have been committed and both were handed over
C1_Witness ==
    \E i, j \in 1 .. Len(consumed) :
        /\ i < j
        /\ consumed[i].owner = consumed[j].owner
        /\ consumed[i] \in committed
        /\ consumed[j] \in committed

Complete(r) ==
    /\ ~ r.busy
    /\ r.written = Len(FieldsOf(loaded))
    /\ r.type # Unwritten

\* C2: whatever the consumer is handed, and whatever it could be handed next,
\* was submitted by its producer with every field written; a record that is
\* reserved but not submitted is never handed over.
C2_NoHalfWrittenEvent ==
    /\ \A i \in 1 .. Len(consumed) :
          Complete(consumed[i]) /\ consumed[i] \in committed
    /\ \A r \in Visible : Complete(r) /\ r \in committed

\* the consumer took a record while another producer was still filling its slot
C2_Witness ==
    /\ Len(consumed) > 0
    /\ \E r \in Range(ringbuf_events) : r.busy /\ r.written > 0
    /\ \E r \in Range(ringbuf_events) : ~ r.busy

\* CPU c executes its reserve with the ring too full for one more record
ReserveOverCapacity(c) ==
    /\ cpu[c].pc = "reserve"
    /\ cpu'[c].pc # "reserve"
    /\ Outstanding + EventSize > RingCapacity

\* C3: a reserve that would push the outstanding bytes over the capacity
\* returns NULL (the handler returns without a slot) and leaves the ring as it
\* was; every record that was committed when a reserve failed stays as
\* committed until the consumer is handed it.
C3_ReserveOverCapacityFails ==
    /\ [][\A c \in CPUs :
            ReserveOverCapacity(c) =>
                /\ cpu'[c].pc = "idle"
                /\ cpu'[c].e = NULL
                /\ ringbuf_events' = ringbuf_events
                /\ producer_pos' = producer_pos]_vars
    /\ [](\A i \in 1 .. Len(drop_log) :
            \A r \in drop_log[i].visible : r \in Visible \/ r \in Range(consumed))

\* a reserve failed while a committed record was outstanding, and that record
\* has since been handed to the consumer
C3_Witness ==
    \E i \in 1 .. Len(drop_log) :
        \E r \in drop_log[i].visible : r \in Range(consumed)

\* the map a handler operates on before it reserves its record
own_map(h) ==
    CASE h = "hash_map_update"        -> {"hash_map"}
      [] h = "array_map_benchmark"    -> {"array_map"}
      [] h = "percpu_array_benchmark" -> {"percpu_array"}
      [] h = "percpu_hash_benchmark"  -> {"percpu_hash"}
      [] OTHER                        -> {}

\* the maps and buffers whose contents a step changes
Touched ==
    (IF hash_map' # hash_map THEN {"hash_map"} ELSE {})
    \cup (IF array_map' # array_map THEN {"array_map"} ELSE {})
    \cup (IF percpu_array' # percpu_array THEN {"percpu_array"} ELSE {})
    \cup (IF <<percpu_hash_keys, percpu_hash>>' # <<percpu_hash_keys, percpu_hash>>
          THEN {"percpu_hash"} ELSE {})
    \cup (IF counters' # counters THEN {"counters"} ELSE {})
    \cup (IF ring_vars' # ring_vars THEN {"ringbuf_events"} ELSE {})

\* a step of the invocation on CPU c that does not get past its reserve
StepBeforeSlot(c) ==
    /\ cpu'[c] # cpu[c]
    /\ \/ cpu[c].pc \in {"idle", "op", "op2"}
       \/ cpu[c].pc = "reserve" /\ cpu'[c].pc = "idle"

StepProg(c) == IF cpu[c].pc = "idle" THEN cpu'[c].prog ELSE cpu[c].prog

\* C4 as stated: an invocation whose reserve fails has written to no map, no
\* counter and no ring slot.
C4_FailedReserveWithoutSideEffects ==
    \A i \in 1 .. Len(drop_log) : drop_log[i].wrote = {}

\* C4, amended: an invocation whose reserve fails has written to nothing but
\* the map its handler operates on before reserving (none for the handlers of
\* ringbuf_throughput.c and for hash_map_lookup); the failing reserve itself
\* changes no map, no counter and no ring slot, and up to its reserve no
\* step of a handler changes anything but that map.
C4_FailedReserveKeepsOnlyOwnMapWrite ==
    /\ [](\A i \in 1 .. Len(drop_log) :
            drop_log[i].wrote \subseteq own_map(drop_log[i].prog))
    /\ [][\A c \in CPUs :
            StepBeforeSlot(c) => Touched \subseteq own_map(StepProg(c))]_vars
    /\ [][Len(drop_log') > Len(drop_log) => Touched = {}]_vars

\* a hash_map_update stored its value, failed to reserve and returned, and
\* the value is in the map
C4_Witness ==
    \E i \in 1 .. Len(drop_log) :
        /\ drop_log[i].prog = "hash_map_update"
        /\ drop_log[i].wrote = {"hash_map"}
        /\ DOMAIN hash_map # {}

\* C5 as stated, in its weakest form: a capture that fails for lack of
\* capacity is counted somewhere, so the failing step changes a counter or a
\* map of the program.
C5_FailedCaptureIsCounted ==
    [][Len(drop_log') > Len(drop_log) =>
            <<counters, map_vars>>' # <<counters, map_vars>>]_vars

\* handler h on key k is running on CPU c and has not done its map operation
Pending(c, h, k) ==
    IF cpu[c].prog = h /\ cpu[c].key = k /\ cpu[c].pc \in {"op", "op2"}
    THEN 1 ELSE 0

\* the invocations of h on key k by CPU c that have done their map operation
Applied(c, h, k) == calls[c][h][k] - Pending(c, h, k)

AppliedAll(h, k) == SumOver([c \in CPUs |-> Applied(c, h, k)], CPUs)

\* merge_all: the per-key sum over the shards
merge_all(m, k) == SumOver([c \in CPUs |-> m[c][k]], CPUs)

Quiescent == \A c \in CPUs : cpu[c].pc = "idle"

\* C6: with each CPU updating only its own slot of percpu_array and
\* percpu_hash, the per-key sum over the slots equals the number of updates
\* applied so far, whatever the interleaving; once every handler has
\* returned it equals the number of invocations, which is what applying them
\* one after the other gives.
C6_ShardedNoLostUpdates ==
    loaded = "map_operations" =>
        \A k \in Keys :
            /\ merge_all(percpu_array, k) = AppliedAll("percpu_array_benchmark", k)
            /\ merge_all(percpu_hash, k) = AppliedAll("percpu_hash_benchmark", k)
            /\ Quiescent =>
                  /\ merge_all(percpu_array, k) =
                        SumOver([c \in CPUs |-> calls[c]["percpu_array_benchmark"][k]],
                                CPUs)
                  /\ merge_all(percpu_hash, k) =
                        SumOver([c \in CPUs |-> calls[c]["percpu_hash_benchmark"][k]],
                                CPUs)

\* both CPUs have updated the same key of percpu_hash, one of them twice, and
\* every handler has returned
C6_Witness ==
    /\ Quiescent
    /\ \E k \in Keys :
          /\ \A c \in CPUs : percpu_hash[c][k] > 0
          /\ \E c \in CPUs : percpu_hash[c][k] > 1

\* C7 as stated: of the updates of hash_map that were entered while the key
\* was absent, none is overwritten: the record holds every one of them.
C7_NoFirstUpdateOverwritten ==
    \A k \in Keys :
        (first_puts[k] # {} /\ ~ later_put[k]) =>
            /\ k \in DOMAIN hash_map
            /\ \A v \in first_puts[k] : hash_map[k] = v

\* C7, amended: concurrent first updates of one key create one element.  In
\* percpu_hash each CPU's slot of it counts that CPU's applied updates, so
\* none is lost; in hash_map the element holds the value of one of the first
\* updates (BPF_ANY: the last to store wins, the others are overwritten).
C7_OneCreationLastStoreWins ==
    loaded = "map_operations" =>
        \A k \in Keys :
            /\ (first_puts[k] # {} /\ ~ later_put[k]) =>
                  (k \in DOMAIN hash_map /\ hash_map[k] \in first_puts[k])
            /\ k \in percpu_hash_keys <=>
                  AppliedAll("percpu_hash_benchmark", k) > 0
            /\ \A c \in CPUs :
                  percpu_hash[c][k] = Applied(c, "percpu_hash_benchmark", k)

\* two CPUs looked the same key up in percpu_hash while it was absent and
\* both have done their update
C7_Witness ==
    \E k \in Keys :
        \A c \in CPUs :
            /\ cpu[c].prog = "percpu_hash_benchmark"
            /\ cpu[c].key = k
            /\ cpu[c].val = "miss"
            /\ cpu[c].pc = "reserve"

\* C8: an aggregate record of the programs is one 64-bit word updated by one
\* atomic add, so at every moment a reader sees in array_map[k], and in each
\* CPU's slot of percpu_array, exactly the number of updates applied so far:
\* no update is half applied and none is lost to a concurrent one.
C8_MergesAreAtomic ==
    loaded = "map_operations" =>
        \A k \in Keys :
            /\ array_map[k] = AppliedAll("array_map_benchmark", k)
            /\ \A c \in CPUs :
                  percpu_array[c][k] = Applied(c, "percpu_array_benchmark", k)

\* an array_map element has been updated by both CPUs while another update
\* of it is under way
C8_Witness ==
    \E k \in Keys :
        /\ array_map[k] > 1
        /\ \E c \in CPUs : Pending(c, "array_map_benchmark", k) = 1

RECURSIVE SeqSum(_)
SeqSum(q) == IF q = <<>> THEN 0 ELSE Head(q) + SeqSum(Tail(q))

\* C9: after N >= 1 merges into a fresh record, count is N, sum_latency is
\* the sum of the merged latencies, min_latency their least and max_latency
\* their greatest; so min_latency <= max_latency and
\* sum_latency >= count * min_latency.
C9_StatsRecordMerge ==
    (loaded = "stats" /\ Len(lat_log) >= 1) =>
        /\ stats.count = Len(lat_log)
        /\ stats.sum_latency = SeqSum(lat_log)
        /\ stats.min_latency \in Range(lat_log)
        /\ \A d \in Range(lat_log) : stats.min_latency <= d
        /\ stats.max_latency \in Range(lat_log)
        /\ \A d \in Range(lat_log) : stats.max_latency >= d
        /\ stats.min_latency <= stats.max_latency
        /\ stats.sum_latency >= stats.count * stats.min_latency

\* several different latencies have been merged
C9_Witness ==
    /\ loaded = "stats"
    /\ Len(lat_log) >= 3
    /\ stats.min_latency < stats.max_latency

\* CPU c executes bpf_map_update_elem on hash_map for a new key with the map
\* full
Rejected(c) ==
    /\ cpu[c].prog = "hash_map_update"
    /\ cpu[c].pc = "op"
    /\ cpu'[c].pc = "reserve"
    /\ hash_update_rejected(DOMAIN hash_map, hash_map_max_entries, cpu[c].key)

\* C10 as stated, in its weakest form: an update that is rejected because
\* the map is full is counted (dropped_updates grows by one), so the
\* rejected step changes a counter or a map of the program.
C10_RejectedUpdateIsCounted ==
    [][\A c \in CPUs :
          Rejected(c) => <<counters, map_vars>>' # <<counters, map_vars>>]_vars

\* the bytes of the ring a reserve can still claim
FreeSpace == RingCapacity - Outstanding

\* C12: the ring's free space is its capacity less the bytes of the records
\* that are reserved or committed and not yet consumed; so once a poll has
\* taken every committed record and no reservation is outstanding, the free
\* space is the full capacity again.
C12_PollRestoresFreeSpace ==
    /\ FreeSpace = RingCapacity - EventSize * Len(ringbuf_events)
    /\ ringbuf_events = <<>> => FreeSpace = RingCapacity

\* the ring was filled to capacity by records committed one after the other,
\* and the consumer has taken them all, in commit order
C12_Witness ==
    /\ ringbuf_events = <<>>
    /\ Len(consumed) * EventSize = RingCapacity
    /\ \A i \in 1 .. Len(consumed) : consumed[i] \in committed
    /\ Len(drop_log) = 0
    /\ Quiescent

\* a step of the invocation running on CPU c, in either object file
own_step(c) ==
    \/ handler_step(c)
    \/ hm_lookup(c) \/ hm_update(c) \/ am_update(c) \/ pa_update(c)
    \/ ph_lookup(c) \/ ph_update(c)
    \/ \E h \in MapHandlers : mo_reserve(c, h) \/ mo_fill(c, h) \/ mo_submit(c, h)

\* the steps a handler takes from its submit to its return
StepsFromSubmit == IF loaded = "ringbuf_throughput" THEN 2 ELSE 1

\* the steps the invocation on CPU c has left before it returns, at most
StepsLeft(c) ==
    LET fields == Len(FieldsOf(loaded))
        pc == cpu[c].pc
    IN  CASE pc = "idle"    -> 0
          [] pc = "count"   -> 1
          [] pc = "submit"  -> StepsFromSubmit
          [] pc = "fill"    ->
                StepsFromSubmit + fields
                    - ringbuf_events[SlotIndex(cpu[c].e)].written
          [] pc = "reserve" -> StepsFromSubmit + fields + 1
          [] pc = "op2"     -> StepsFromSubmit + fields + 2
          [] pc = "op"      -> StepsFromSubmit + fields + 3

\* C13: an invocation that has started can always take its next step,
\* whatever the other CPUs and the consumer are doing and however full the
\* ring is; each of its steps brings it closer to its return, no step of
\* anyone else takes it further away, and it has at most
\* Len(EventFields) + 3 steps to go when it starts.
C13_ProducersNeverBlock ==
    /\ [](\A c \in CPUs : cpu[c].pc # "idle" => ENABLED own_step(c))
    /\ [](\A c \in CPUs : StepsLeft(c) <= Len(EventFields) + 3)
    /\ [][\A c \in CPUs :
            /\ own_step(c) => StepsLeft(c)' < StepsLeft(c)
            /\ cpu[c].pc # "idle" => StepsLeft(c)' <= StepsLeft(c)]_vars

\* the ring is full, the consumer has taken nothing, and an invocation that
\* found the ring full has returned all the same
C13_Witness ==
    /\ consumed = <<>>
    /\ ~ ringbuf_has_room(EventSize)
    /\ Len(drop_log) > 0
    /\ Quiescent

\* CPU c executes the if/else of percpu_hash_benchmark
FirstTouchStep(c) ==
    /\ cpu[c].prog = "percpu_hash_benchmark"
    /\ cpu[c].pc = "op2"
    /\ cpu'[c].pc = "reserve"

\* C14: in percpu_hash_benchmark a lookup miss sets the calling CPU's value
\* for the key to 1 and a hit adds 1 to it; so, the key being absent at the
\* start, whenever no invocation for (cpu, key) is between its entry and its
\* update, the value stored for (cpu, key) is the number of invocations made
\* for that key on that CPU.
C14_FirstTouchCountsFromOne ==
    /\ [][\A c \in CPUs :
            FirstTouchStep(c) =>
                percpu_hash'[c][cpu[c].key] =
                    IF cpu[c].val = "miss" THEN 1
                    ELSE percpu_hash[c][cpu[c].key] + 1]_vars
    /\ [](loaded = "map_operations" =>
            \A c \in CPUs : \A k \in Keys :
                Pending(c, "percpu_hash_benchmark", k) = 0 =>
                    percpu_hash[c][k] = calls[c]["percpu_hash_benchmark"][k])

\* one CPU has run percpu_hash_benchmark twice for a key, first missing and
\* then hitting, while the other CPU has run it once for the same key
C14_Witness ==
    /\ Quiescent
    /\ \E k \in Keys : \E c, d \in CPUs :
          /\ c # d
          /\ percpu_hash[c][k] = 2
          /\ percpu_hash[d][k] = 1

\* the record the invocation running on CPU c has submitted
SubmittedBy(c) == CHOOSE r \in committed : r.owner = c /\ r.seq = seq[c]

\* the invocation on CPU c has submitted its event and not yet returned
HasSubmitted(c) ==
    /\ loaded = "ringbuf_throughput"
    /\ cpu[c].pc = "count"

\* C15 as stated: events of different producer kinds carry different
\* event_type values.
C15_EventTypeIdentifiesProducer ==
    \A c, d \in CPUs :
        (HasSubmitted(c) /\ HasSubmitted(d) /\ cpu[c].prog # cpu[d].prog)
            => SubmittedBy(c).type # SubmittedBy(d).type

\* C15, amended: an event submitted by kprobe_openat carries
\* EVENT_TYPE_KPROBE; an event submitted by tracepoint_openat or by
\* raw_tracepoint_handler carries EVENT_TYPE_TRACEPOINT.  event_type tells
\* the kprobe from the two tracepoint producers, and not these two apart.
C15_EventTypeKprobeOrTracepoint ==
    /\ EVENT_TYPE_KPROBE # EVENT_TYPE_TRACEPOINT
    /\ \A c \in CPUs :
          HasSubmitted(c) =>
              SubmittedBy(c).type =
                  IF cpu[c].prog = "kprobe_openat" THEN EVENT_TYPE_KPROBE
                  ELSE EVENT_TYPE_TRACEPOINT
    /\ loaded = "ringbuf_throughput" =>
          \A r \in committed : r.type \in {EVENT_TYPE_KPROBE, EVENT_TYPE_TRACEPOINT}

\* tracepoint_openat and raw_tracepoint_handler have each submitted an event,
\* and a kprobe_openat event has been consumed
C15_Witness ==
    /\ \E c, d \in CPUs :
          /\ HasSubmitted(c) /\ cpu[c].prog = "tracepoint_openat"
          /\ HasSubmitted(d) /\ cpu[d].prog = "raw_tracepoint_handler"
    /\ \E i \in 1 .. Len(consumed) : consumed[i].type = EVENT_TYPE_KPROBE

\* the events handler h has submitted
SubmittedCount(h) == Cardinality({r \in committed : r.prog = h})

\* the invocations of h that have submitted and not yet counted
Uncounted(h) == Cardinality({c \in CPUs : cpu[c].prog = h /\ cpu[c].pc = "count"})

InFlight(h) == \E c \in CPUs : cpu[c].prog = h

\* C16: in ringbuf_throughput.c the counter of a handler never exceeds the
\* number of events the handler has submitted (it lags by the invocations
\* that have submitted and not yet counted), equals it whenever no invocation
\* of the handler is in flight, and is left alone by a failing reserve; the
\* other elements of counters stay 0.
C16_CounterCountsSubmittedEvents ==
    /\ [](loaded = "ringbuf_throughput" =>
            /\ \A h \in RingbufHandlers :
                  /\ counters[counter_key_of(h)] <= SubmittedCount(h)
                  /\ counters[counter_key_of(h)] = SubmittedCount(h) - Uncounted(h)
                  /\ ~ InFlight(h) => counters[counter_key_of(h)] = SubmittedCount(h)
            /\ \A k \in DOMAIN counters :
                  k \notin {counter_key_of(h) : h \in RingbufHandlers} => counters[k] = 0)
    /\ [][Len(drop_log') > Len(drop_log) => counters' = counters]_vars

\* two handlers have each submitted and counted an event, a third invocation
\* failed to reserve, and all have returned
C16_Witness ==
    /\ loaded = "ringbuf_throughput"
    /\ Quiescent
    /\ Len(drop_log) > 0
    /\ counters[1] = 1
    /\ counters[2] = 1

\* the keys the mask lets through
MaskedKeys == 0 .. 255

\* C18: every key the handlers of map_operations.c compute lies in 0..255,
\* whatever the pid; so with the capacities of the source a lookup in
\* array_map or percpu_array always hits, hash_map and percpu_hash hold keys
\* of 0..255 only (at most 256), and no update of them is refused for lack of
\* room.
C18_KeysFitTheMaps ==
    loaded = "map_operations" =>
        /\ \A pid \in 0 .. MaxPid : key_of(pid) \in MaskedKeys
        /\ Cardinality(MaskedKeys) <= ArrayMaxEntries
        /\ Cardinality(MaskedKeys) <= PercpuArrayMaxEntries
        /\ Cardinality(MaskedKeys) <= hash_map_max_entries
        /\ Cardinality(MaskedKeys) <= PercpuHashMaxEntries
        /\ DOMAIN hash_map \subseteq MaskedKeys
        /\ percpu_hash_keys \subseteq MaskedKeys
        /\ \A c \in CPUs :
              cpu[c].pc # "idle" =>
                  /\ cpu[c].key \in MaskedKeys
                  /\ array_lookup_hits(cpu[c].key, ArrayMaxEntries)
                  /\ array_lookup_hits(cpu[c].key, PercpuArrayMaxEntries)
                  /\ ~ hash_update_rejected(DOMAIN hash_map, hash_map_max_entries,
                                            cpu[c].key)
                  /\ ~ hash_update_rejected(percpu_hash_keys, PercpuHashMaxEntries,
                                            cpu[c].key)

\* hash_map, array_map and percpu_hash have all been updated for one key
C18_Witness ==
    \E k \in Keys :
        /\ k \in DOMAIN hash_map
        /\ array_map[k] > 0
        /\ k \in percpu_hash_keys

\* the invocation on CPU c holds a slot it has reserved and not submitted
HoldsSlot(c) == cpu[c].pc \in {"fill", "submit"}

\* the invocations that have started and not yet got past their reserve
BeforeReserve == Cardinality({c \in CPUs : cpu[c].pc \in {"op", "op2", "reserve"}})

Holding == Cardinality({c \in CPUs : HoldsSlot(c)})

\* C19: a slot is in the Reserved state only while the invocation that
\* reserved it is between its reserve and its submit, and that invocation
\* holds exactly that slot; a submit commits one record, the slot of the CPU
\* that submits; every invocation that has got past its reserve has either
\* failed to reserve, or holds its slot, or has submitted it exactly once.
\* So when no invocation is in flight no slot is Reserved.
C19_NoReservationLeaked ==
    /\ [](\A r \in Range(ringbuf_events) :
            r.busy => /\ HoldsSlot(r.owner)
                      /\ r.seq = seq[r.owner]
                      /\ ringbuf_events[SlotIndex(cpu[r.owner].e)] = r)
    /\ [](\A c \in CPUs :
            HoldsSlot(c) => ringbuf_events[SlotIndex(cpu[c].e)].busy)
    /\ [](Cardinality(committed) + Len(drop_log) + Holding + BeforeReserve
            = Invocations)
    /\ [](Quiescent => \A r \in Range(ringbuf_events) : ~ r.busy)
    /\ [][committed' # committed =>
            \E c \in CPUs :
                /\ cpu[c].pc = "submit"
                /\ cpu'[c].pc # "submit"
                /\ committed' = committed \cup
                      {[ringbuf_events[SlotIndex(cpu[c].e)] EXCEPT !.busy = FALSE]}
                /\ Cardinality(committed') = Cardinality(committed) + 1]_vars

\* every invocation has returned; one failed to reserve, the others
\* submitted, and a submitted record is still waiting for the consumer
C19_Witness ==
    /\ Quiescent
    /\ Len(drop_log) > 0
    /\ Cardinality(committed) > 1
    /\ Len(ringbuf_events) > 0

\* a step of an invocation of hash_map_lookup on CPU c, its entry included
LookupStep(c) ==
    \/ cpu[c].pc = "idle" /\ cpu'[c].prog = "hash_map_lookup"
    \/ cpu[c].prog = "hash_map_lookup" /\ own_step(c)

\* the slots CPU c's current invocation has in the ring or has had consumed
SlotsOf(c) ==
    Cardinality({i \in 1 .. Len(ringbuf_events) :
                    ringbuf_events[i].owner = c /\ ringbuf_events[i].seq = seq[c]})
    + Cardinality({i \in 1 .. Len(consumed) :
                    consumed[i].owner = c /\ consumed[i].seq = seq[c]})

\* C20: no step of hash_map_lookup changes hash_map, array_map, percpu_array,
\* percpu_hash or a counter, whether its key is present or absent; an
\* invocation puts at most one record in the ring, and the record it submits
\* is a latency_event with operation 0.
C20_LookupIsReadOnly ==
    /\ [][\A c \in CPUs :
            LookupStep(c) => /\ map_vars' = map_vars
                             /\ counters' = counters
                             /\ consumed' = consumed]_vars
    /\ [](\A c \in CPUs : cpu[c].prog = "hash_map_lookup" => SlotsOf(c) <= 1)
    /\ [](\A r \in committed :
            r.prog = "hash_map_lookup" =>
                r.type = 0 /\ r.written = Len(LatencyFields))

\* two invocations of hash_map_lookup are about to submit their records, one
\* that found its key and one that did not
C20_Witness ==
    \E c, d \in CPUs :
        /\ cpu[c].prog = "hash_map_lookup" /\ cpu[c].pc = "submit"
        /\ cpu[d].prog = "hash_map_lookup" /\ cpu[d].pc = "submit"
        /\ cpu[c].val = "hit"
        /\ cpu[d].val = "miss"

(* --------------------------- perfbuf_throughput ------------------------ *)
LastRead(c) ==
    IF perf_read[c] = <<>> THEN 0 ELSE perf_read[c][Len(perf_read[c])]

\* the records the consumer knows it has missed on CPU c's buffer: the
\* sequence numbers up to the last one it read that it never read
GapSeen(c) == LastRead(c) - Len(perf_read[c])

WriteStep(c) == cpu[c].pc = "output" /\ cpu'[c].pc = "count"

\* C11: a handler at its bpf_perf_event_output call can always take the step,
\* and the step appends its record with the next sequence number of the CPU's
\* buffer; on a full buffer the step overwrites the oldest unread record; the
\* consumer reads increasing sequence numbers, the gap it has seen is the
\* number of overwritten records older than its last read, and once it has
\* drained the buffer the gap is exactly the number of overwritten records.
C11_GapCountsOverwrittenRecords ==
    /\ [](\A c \in CPUs :
            cpu[c].pc = "output" => ENABLED pf_output(c, cpu[c].prog))
    /\ [][\A c \in CPUs :
            WriteStep(c) =>
                /\ perf_seq'[c] = perf_seq[c] + 1
                /\ perf_events'[c][Len(perf_events'[c])].seq = perf_seq'[c]
                /\ IF Len(perf_events[c]) = ShardCapacity
                   THEN /\ perf_events'[c] =
                              Append(Tail(perf_events[c]), PerfRecord(c))
                        /\ perf_overwritten'[c] =
                              perf_overwritten[c] \cup {Head(perf_events[c]).seq}
                   ELSE /\ perf_events'[c] =
                              Append(perf_events[c], PerfRecord(c))
                        /\ perf_overwritten'[c] = perf_overwritten[c]]_vars
    /\ [](\A c \in CPUs :
            /\ Len(perf_events[c]) <= ShardCapacity
            /\ \A i, j \in 1 .. Len(perf_read[c]) :
                  i < j => perf_read[c][i] < perf_read[c][j]
            /\ perf_seq[c] = Len(perf_read[c]) + Len(perf_events[c])
                                + Cardinality(perf_overwritten[c])
            /\ GapSeen(c) =
                  Cardinality({n \in perf_overwritten[c] : n < LastRead(c)})
            /\ perf_events[c] = <<>> =>
                  GapSeen(c) = Cardinality(perf_overwritten[c]))

\* more records than the buffer holds were written to one CPU's buffer before
\* the consumer drained it: a record was overwritten, and the consumer has
\* seen the gap
C11_Witness ==
    \E c \in CPUs :
        /\ perf_overwritten[c] # {}
        /\ perf_events[c] = <<>>
        /\ perf_seq[c] > ShardCapacity
        /\ GapSeen(c) = 1
        /\ perf_read[c][1] = 2

PerfInFlight(h) ==
    Cardinality({c \in CPUs : cpu[c].prog = h /\ cpu[c].pc # "idle"})

RawStep(c) ==
    /\ cpu'[c] # cpu[c]
    /\ cpu[c].prog = "raw_tracepoint_perf" \/ cpu'[c].prog = "raw_tracepoint_perf"

\* the records written to the buffers so far, over all CPUs
PerfWritten ==
    Cardinality({w \in CPUs \X (1 .. MaxInvocations) : w[2] <= perf_seq[w[1]]})

\* C17: the counter of each handler of perfbuf_throughput.c is the number of
\* its invocations less those still in flight, so with none in flight it is
\* the number of invocations; no step of raw_tracepoint_perf touches a
\* perf_events buffer, and no record in a buffer comes from it.
C17_PerfCountersCountInvocations ==
    /\ [](\A h \in PerfHandlers :
            counters[perf_counter_key_of(h)] = perf_calls[h] - PerfInFlight(h))
    /\ [](Quiescent =>
            \A h \in PerfHandlers : counters[perf_counter_key_of(h)] = perf_calls[h])
    /\ [][\A c \in CPUs : RawStep(c) => perf_vars' = perf_vars]_vars
    /\ [](\A c \in CPUs : \A i \in 1 .. Len(perf_events[c]) :
            perf_events[c][i].prog # "raw_tracepoint_perf")

\* each of the three handlers has run once and returned: three counters stand
\* at one, and two records were written
C17_Witness ==
    /\ Quiescent
    /\ \A h \in PerfHandlers :
          perf_calls[h] = 1 /\ counters[perf_counter_key_of(h)] = 1
    /\ PerfWritten = 2

=============================================================================
